---- MODULE Spec2Model ----
(***************************************************************************)
(* garmin-to-notion: the three sync scripts (sleep-data.py, daily-steps.py, *)
(* garmin-activities.py) as state machines over the destination store (the *)
(* Notion database), the upstream tracker (Garmin) and the scripts' local   *)
(* variables.  One action per external call of a script together with the  *)
(* code that runs up to the next external call.                            *)
(***************************************************************************)
EXTENDS Integers, Sequences, FiniteSets, TLC

\* ------------------------------------------------------------------ bounds
\* Calendar days the model distinguishes; "today" is the last of them.
MaxDays == 2
\* Pages the destination database holds before the first run.
MaxPages == 2
\* Entries the store returns per query response (page_size=100 in the code).
PageLimit == 1

\* Python's None for an optional number, date or cursor.
None == -1

VARIABLES
    program,          \* which script runs: "sleep" | "steps" | "activities"
    config_ok,        \* all four environment variables are set
    skip_zero_sleep,  \* parameter of sync_sleep_range_last_n_days
    n_days,           \* parameter of sync_sleep_range_last_n_days
    today_kst,        \* the day the script runs on (a day number)
    db,               \* the destination database: a sequence of pages
    fixture,          \* upstream data per date, fixed once it has been served
    pc,               \* position of the running script
    run,              \* 1 for the first run, 2 for the re-run
    raised,           \* some external call raised in this behaviour
    db_start,         \* db as it was when the current run started
    start_cursor,     \* notion_fetch_existing_pages_by_date: start_cursor
    by_date,          \* notion_fetch_existing_pages_by_date: by_date
    field_seconds,    \* build: a seconds field of dailySleepDTO, daily_sleep.get(k, 0)
    i,                \* sync loop index (activities: entries already handled)
    steps_day,        \* daily-steps main: the loop date d
    steps_data,       \* daily-steps main: steps_data
    existing_steps,   \* daily-steps main: existing_steps
    activities,       \* garmin-activities main: activities (start times)
    props,            \* properties built for the date being written
    k,                \* number of pages of the date already updated
    created, updated, skipped, errors, duplicate_dates,
    log               \* history: external calls, delays and counter increments

vars == <<program, config_ok, skip_zero_sleep, n_days, today_kst, field_seconds, db,
          fixture, pc, run,
          raised, db_start, start_cursor, by_date, i, steps_day, steps_data,
          existing_steps, activities, props, k,
          created, updated, skipped, errors, duplicate_dates, log>>

\* ------------------------------------------------------------- python bits
\* `x or 0`
Or0(x) == IF x = None THEN 0 ELSE x

\* `not x` for an optional number
Falsy(x) == x = None \/ x = 0

RECURSIVE SumSeq(_)
SumSeq(s) == IF s = <<>> THEN 0 ELSE Head(s) + SumSeq(Tail(s))

Min(a, b) == IF a <= b THEN a ELSE b

\* ------------------------------------------------------------------- dates
\* Dates are day numbers, 1 .. today_kst.
Dates == 1..today_kst
start_day == today_kst - (n_days - 1)
end_day == today_kst
\* d of loop iteration j: start_day + timedelta(days=j)
LoopDate(j) == start_day + j
Window == {LoopDate(j) : j \in 0..(n_days - 1)}

\* ------------------------------------------------------ upstream (Garmin)
\* The payloads garmin.get_sleep_data may return for date d.  calendarDate is
\* the date embedded in the payload; the tracker may report the previous day.
FixtureKinds == {"none", "empty", "no_ts", "no_end", "zero", "good", "no_hr"}

SleepPayload(kind, d) ==
    [ json           |-> IF kind = "none" THEN "null" ELSE "object",
      dailySleepDTO  |-> kind \notin {"none", "empty"},
      calendarDate   |-> IF kind \in {"good", "zero"} THEN d - 1 ELSE d,
      sleepStartTimestampGMT |-> IF kind = "no_ts" THEN None ELSE 1000 * d,
      sleepEndTimestampGMT   |-> IF kind = "no_end" THEN None ELSE 1000 * d + 400,
      deepSleepSeconds  |-> IF kind = "zero" THEN 0 ELSE 3600,
      lightSleepSeconds |-> IF kind = "zero" THEN None ELSE 3000,
      remSleepSeconds   |-> IF kind = "zero" THEN 0 ELSE 784,
      restingHeartRate    |-> IF kind = "zero" THEN 58 ELSE None,
      dtoRestingHeartRate |-> IF kind = "good" THEN 58 ELSE None ]

\* ------------------------------------------------------- field formatting
\* Variant: the minutes are rounded to nearest.
format_duration_Rounded(seconds) ==
    LET minutes == (Or0(seconds) + 30) \div 60
    IN  ToString(minutes \div 60) \o "h " \o ToString(minutes % 60) \o "m"

\* minutes = (seconds or 0) // 60;  f"{minutes // 60}h {minutes % 60}m"
format_duration(seconds) ==
    LET minutes == Or0(seconds) \div 60
    IN  ToString(minutes \div 60) \o "h " \o ToString(minutes % 60) \o "m"

\* round(seconds / 3600, 1), in tenths of an hour (to nearest; the payloads of
\* the model have no value on a tie).
HoursTenths(seconds) == (seconds * 10 + 1800) \div 3600

\* round(seconds / 3600, 1) for any number of seconds, in tenths of an hour.
\* On a tie the result depends on the floating-point quotient: either
\* neighbour.
RoundedTenths(seconds) ==
    IF (seconds * 10) % 3600 = 1800
    THEN {(seconds * 10) \div 3600, (seconds * 10) \div 3600 + 1}
    ELSE {HoursTenths(seconds)}

\* ---------------------------------------------- build_sleep_properties...
NoProps == [ Date |-> None ]

\* Variant: the Date is taken from the payload's calendarDate.
PinnedDate_Payload(sleep_data, target_date_str) == sleep_data.calendarDate

\* "Date": {"date": {"start": target_date_str}}
PinnedDate(sleep_data, target_date_str) == target_date_str

\* Variant: the dailySleepDTO fallback is missing.
RestingHrOf_TopOnly(sleep_data) == Or0(sleep_data.restingHeartRate)

\* Lines 146-150: Resting HR, top level first, then dailySleepDTO, then 0.
RestingHrOf(sleep_data) ==
    LET rhr == IF sleep_data.restingHeartRate = None
               THEN sleep_data.dtoRestingHeartRate
               ELSE sleep_data.restingHeartRate
    IN  Or0(rhr)

\* Variant: only the start timestamp is required.
MissingTimestamp_StartOnly(sleep_data) == Falsy(sleep_data.sleepStartTimestampGMT)

\* Lines 115-118: `if not start_ts or not end_ts: return None`.
MissingTimestamp(sleep_data) ==
    \/ Falsy(sleep_data.sleepStartTimestampGMT)
    \/ Falsy(sleep_data.sleepEndTimestampGMT)

\* Variant: a zero total is never skipped.
SkipsZeroSleep_Never(skip_zero, total_sleep) == FALSE

\* Lines 124-125: `if skip_zero_sleep and total_sleep == 0: return None`.
SkipsZeroSleep(skip_zero, total_sleep) == skip_zero /\ total_sleep = 0

build_sleep_properties_for_target_date(sleep_data, target_date_str, skip_zero) ==
    LET total_sleep == SumSeq(<<Or0(sleep_data.deepSleepSeconds),
                                Or0(sleep_data.lightSleepSeconds),
                                Or0(sleep_data.remSleepSeconds)>>)
    IN  IF ~sleep_data.dailySleepDTO THEN NoProps
        ELSE IF MissingTimestamp(sleep_data) THEN NoProps
        ELSE IF SkipsZeroSleep(skip_zero, total_sleep) THEN NoProps
        ELSE [ Date          |-> PinnedDate(sleep_data, target_date_str),
               TotalSleepH   |-> HoursTenths(total_sleep),
               TotalSleep    |-> format_duration(total_sleep),
               RestingHR     |-> RestingHrOf(sleep_data) ]

\* ------------------------------------------------- the destination store
\* A sleep page: [id, date, rhr, total_h].  date = None: the page has no Date;
\* rhr = None: the page has no Resting HR number.
NewSleepPage(id, p) ==
    [ id |-> id, date |-> p.Date, rhr |-> p.RestingHR, total_h |-> p.TotalSleepH ]

\* pages.create: the store appends a page with the next id.
StoreCreate(store, p) == Append(store, NewSleepPage(Len(store) + 1, p))

\* pages.update(page_id, properties): the page's properties are overwritten.
StoreUpdate(store, page_id, p) ==
    [ n \in 1..Len(store) |->
        IF store[n].id = page_id THEN NewSleepPage(page_id, p) ELSE store[n] ]

\* The date filter of databases.query.  The indexer does not rely on the
\* filter having removed undated pages (it skips them itself), so the store
\* of the model lets them through.
Matches(page, s, e) == page.date = None \/ (s <= page.date /\ page.date <= e)

Matching(store, s, e) == SelectSeq(store, LAMBDA page : Matches(page, s, e))

\* databases.query(start_cursor, filter): one response of at most PageLimit
\* results.  A cursor is the number of results already served.
StoreQuery(store, cursor, s, e) ==
    LET all  == Matching(store, s, e)
        from == IF cursor = None THEN 0 ELSE cursor
        to   == Min(from + PageLimit, Len(all))
    IN  [ results     |-> SubSeq(all, from + 1, to),
          has_more    |-> to < Len(all),
          next_cursor |-> IF to < Len(all) THEN to ELSE None ]

\* -------------------------------------------------------------- the log
Event(op, d, id, ok, p) ==
    [ run |-> run, op |-> op, d |-> d, id |-> id, ok |-> ok, props |-> p ]

Ev(op, d) == Event(op, d, 0, TRUE, NoProps)

\* --------------------------------------- notion_fetch_existing_pages_by_date
\* Variant: one slot per date, the last entry wins.
AppendEntry_Overwrite(index, day, entry) ==
    [index EXCEPT ![day] = <<entry>>]

\* by_date.setdefault(day, []).append({...})
AppendEntry(index, day, entry) ==
    [index EXCEPT ![day] = Append(@, entry)]

\* The body of `for page in resp["results"]`.
RECURSIVE IndexResults(_, _)
IndexResults(index, results) ==
    IF results = <<>> THEN index
    ELSE LET page == Head(results)
             rhr  == Or0(page.rhr)
         IN  IF page.date = None
             THEN IndexResults(index, Tail(results))
             ELSE IndexResults(
                    AppendEntry(index, page.date,
                                [page_id |-> page.id, resting_hr |-> rhr]),
                    Tail(results))

EmptyIndex == [day \in Dates |-> <<>>]


\* ------------------------------------------------------ daily-steps.py
\* steps_data is None / existing_steps is None
NoSteps == [ calendarDate |-> None ]
NoPage == [ id |-> None ]

\* The lists garmin.get_daily_steps(d, d) may return: no entry, an entry for
\* d, an entry dated the day before d, an entry with no steps.
StepsKinds == {"empty", "same", "drift", "zero"}

StepsPayload(kind, day) ==
    IF kind = "empty" THEN <<>>
    ELSE << [ calendarDate  |-> IF kind = "drift" THEN day - 1 ELSE day,
              totalSteps    |-> IF kind = "zero" THEN None ELSE 5000,
              stepGoal      |-> 8000,
              totalDistance |-> IF kind = "zero" THEN None ELSE 3456 ] >>

\* round(total_distance / 1000, 2), in hundredths of a kilometre (to nearest;
\* the payloads of the model have no value on a tie).
KmHundredths(metres) == (metres + 5) \div 10

\* steps_need_update(existing_steps, new_steps)
steps_need_update(existing, new_steps) ==
    \/ existing.steps # Or0(new_steps.totalSteps)
    \/ existing.goal # Or0(new_steps.stepGoal)
    \/ existing.dist # KmHundredths(Or0(new_steps.totalDistance))

\* steps_date = steps.get('calendarDate')
StepsDate(steps, loop_date) == steps.calendarDate

\* The properties create_daily_steps writes.
StepsCreateProps(steps, loop_date) ==
    [ Date          |-> StepsDate(steps, loop_date),
      TotalSteps    |-> Or0(steps.totalSteps),
      StepGoal      |-> Or0(steps.stepGoal),
      TotalDistance |-> KmHundredths(Or0(steps.totalDistance)) ]

\* The properties update_daily_steps writes (no Date among them).
StepsUpdateProps(new_steps) ==
    [ Date          |-> None,
      TotalSteps    |-> Or0(new_steps.totalSteps),
      StepGoal      |-> Or0(new_steps.stepGoal),
      TotalDistance |-> KmHundredths(Or0(new_steps.totalDistance)) ]

\* `if skip_zero_steps and total_steps == 0: return`
SkipsZeroSteps(steps, skip_zero_steps) ==
    skip_zero_steps /\ Or0(steps.totalSteps) = 0

\* A steps page: [id, date, steps, goal, dist], Activity Type "Walking".
StepsStoreCreate(store, p) ==
    Append(store, [ id |-> Len(store) + 1, date |-> p.Date,
                    steps |-> p.TotalSteps, goal |-> p.StepGoal,
                    dist |-> p.TotalDistance ])

StepsStoreUpdate(store, page_id, p) ==
    [ n \in 1..Len(store) |->
        IF store[n].id = page_id
        THEN [ store[n] EXCEPT !.steps = p.TotalSteps, !.goal = p.StepGoal,
                               !.dist = p.TotalDistance ]
        ELSE store[n] ]

\* databases.query with the filter Date equals key: the matching pages.
StoreLookup(store, key) == SelectSeq(store, LAMBDA page : page.date = key)

\* `results[0] if results else None`
FirstOrNone(results) == IF results = <<>> THEN NoPage ELSE results[1]

\* ------------------------------------------------------------ initial state
\* Pages a sleep database holds before the first run: a Date in the model's
\* days and a Resting HR of 0 (placeholder) or 60.  Pages are listed in date
\* order (the index groups by date, so the order across dates is immaterial).
SleepPageKinds == [date : Dates, rhr : {0, 60}]

DateSorted(t) == \A n \in 1..(Len(t) - 1) : t[n].date <= t[n + 1].date

PagesOfKinds(t) ==
    [ n \in 1..Len(t) |->
        [ id |-> n, date |-> t[n].date, rhr |-> t[n].rhr, total_h |-> 0 ] ]

InitialSleepDbs ==
    { PagesOfKinds(t) :
        t \in { u \in UNION { [1..m -> SleepPageKinds] : m \in 0..MaxPages } :
                  DateSorted(u) } }

params == <<program, config_ok, skip_zero_sleep, n_days, today_kst, field_seconds>>
\* Locals of the steps and activities scripts.
others == <<steps_day, steps_data, existing_steps, activities>>
counters == <<created, updated, skipped, errors, duplicate_dates>>
indexer == <<start_cursor, by_date>>

InitLocals ==
    /\ fixture = [d \in Dates |-> "unknown"]
    /\ pc = "start"
    /\ run = 1
    /\ raised = FALSE
    /\ db_start = db
    /\ start_cursor = None
    /\ by_date = EmptyIndex
    /\ i = 0
    /\ steps_day = None
    /\ steps_data = NoSteps
    /\ existing_steps = NoPage
    /\ activities = <<>>
    /\ props = NoProps
    /\ k = 0
    /\ created = 0 /\ updated = 0 /\ skipped = 0 /\ errors = 0
    /\ duplicate_dates = 0
    /\ log = <<>>

Init ==
    /\ program = "sleep"
    /\ config_ok \in BOOLEAN
    /\ skip_zero_sleep \in BOOLEAN
    /\ today_kst = MaxDays
    /\ n_days \in 1..MaxDays
    /\ db \in InitialSleepDbs
    /\ InitLocals
    /\ field_seconds = None

\* The indexing step alone, over stores that also hold undated pages and
\* pages without a Resting HR number, in any order.
IndexPageKinds == [date : Dates \cup {None}, rhr : {None, 0, 60}]

InitialIndexDbs ==
    { PagesOfKinds(t) :
        t \in UNION { [1..m -> IndexPageKinds] : m \in 0..(MaxPages + 1) } }

InitIndex ==
    /\ program = "sleep"
    /\ config_ok \in BOOLEAN
    /\ skip_zero_sleep = TRUE
    /\ today_kst = MaxDays
    /\ n_days \in 1..MaxDays
    /\ db \in InitialIndexDbs
    /\ InitLocals
    /\ field_seconds = None

\* External calls may raise in the first run; the re-run is followed for the
\* case that nothing raises.
MayRaise == run = 1

\* ------------------------------------------- sync_sleep_range_last_n_days
\* Lines 190-203: settings check, then login.
SleepStart ==
    /\ program = "sleep"
    /\ pc = "start"
    /\ \/ /\ ~config_ok
          /\ pc' = "failed"
          /\ UNCHANGED <<log, raised>>
       \/ /\ config_ok
          /\ log' = Append(log, Ev("login", None))
          /\ pc' = "index"
          /\ UNCHANGED raised
       \/ /\ config_ok
          /\ MayRaise
          /\ log' = Append(log, Event("login", None, 0, FALSE, NoProps))
          /\ pc' = "failed"
          /\ raised' = TRUE
    /\ UNCHANGED <<others, params, db, fixture, run, db_start, indexer, i, props, k,
                   counters>>

\* `if not resp.get("has_more"): break`
LastResponse(resp) == ~resp.has_more

\* Variant: a query that raises is swallowed and the run goes on with the
\* index built so far.
AfterQueryError_GoOn == "loop"

\* Where the run goes when databases.query raises: nothing catches it in
\* notion_fetch_existing_pages_by_date or in its caller (line 211).
AfterQueryError == "failed"

\* Lines 65-96 and 211-218: one databases.query call of the indexing loop and
\* the indexing of its results; after the last response the counters are set.
QueryPage ==
    /\ program = "sleep"
    /\ pc = "index"
    /\ \/ LET resp == StoreQuery(db, start_cursor, start_day, end_day)
          IN  /\ by_date' = IndexResults(by_date, resp.results)
              /\ log' = Append(log, Ev("query", None))
              /\ IF LastResponse(resp)
                 THEN /\ pc' = "loop"
                      /\ UNCHANGED start_cursor
                 ELSE /\ start_cursor' = resp.next_cursor
                      /\ UNCHANGED pc
              /\ UNCHANGED raised
       \/ /\ MayRaise
          /\ log' = Append(log, Event("query", None, 0, FALSE, NoProps))
          /\ pc' = AfterQueryError
          /\ raised' = TRUE
          /\ UNCHANGED indexer
    /\ UNCHANGED <<others, params, db, fixture, run, db_start, i, props, k, counters>>

\* pages = existing_by_date.get(d_str, [])
PagesOf(d) == by_date[d]

\* Variant: every entry must be valid.
AnyValid_All(pages) ==
    pages # <<>> /\ \A n \in 1..Len(pages) : pages[n].resting_hr > 0

\* Variant: no entry counts as valid.
AnyValid_Never(pages) == FALSE

\* Variant: only the first entry is looked at.
AnyValid_First(pages) == pages # <<>> /\ pages[1].resting_hr > 0

\* `pages and any(p["resting_hr"] > 0 for p in pages)`
AnyValid(pages) == \E n \in 1..Len(pages) : pages[n].resting_hr > 0

\* Variant: every date is counted as a duplicate date.
DupInc_Always(pages) == 1

\* `if len(pages) > 1: duplicate_dates += 1`
DupInc(pages) == IF Len(pages) > 1 THEN 1 ELSE 0

\* Lines 220-233: an iteration that ends at Rule 3.
SkipDate ==
    /\ program = "sleep"
    /\ pc = "loop"
    /\ i < n_days
    /\ LET d == LoopDate(i)
           pages == PagesOf(d)
       IN  /\ AnyValid(pages)
           /\ duplicate_dates' = duplicate_dates + DupInc(pages)
           /\ skipped' = skipped + 1
           /\ log' = Append(log, Ev("skipped", d))
    /\ i' = i + 1
    /\ UNCHANGED <<others, params, db, fixture, pc, run, raised, db_start, indexer,
                   props, k, created, updated, errors>>

\* Variant: the exception ends the run.
AfterError_Abort == "failed"

\* Where the loop goes after `except Exception: errors += 1; continue`.
AfterError == "loop"

\* Lines 220-248: an iteration that reaches the fetch: the delay, the Garmin
\* call, and the build of the properties.
FetchDate ==
    /\ program = "sleep"
    /\ pc = "loop"
    /\ i < n_days
    /\ LET d == LoopDate(i)
           pages == PagesOf(d)
       IN  /\ ~AnyValid(pages)
           /\ duplicate_dates' = duplicate_dates + DupInc(pages)
           /\ \/ /\ MayRaise
                 /\ log' = log \o <<Ev("delay", d),
                                    Event("fetch", d, 0, FALSE, NoProps),
                                    Ev("errors", d)>>
                 /\ errors' = errors + 1
                 /\ raised' = TRUE
                 /\ pc' = AfterError
                 /\ i' = IF AfterError = "loop" THEN i + 1 ELSE i
                 /\ UNCHANGED <<fixture, props, k, skipped>>
              \/ \E kind \in (IF fixture[d] = "unknown" THEN FixtureKinds
                                                        ELSE {fixture[d]}) :
                   LET sleep_data == SleepPayload(kind, d)
                       p == build_sleep_properties_for_target_date(
                                sleep_data, d, skip_zero_sleep)
                   IN  /\ fixture' = [fixture EXCEPT ![d] = kind]
                       /\ IF sleep_data.json = "null"
                          THEN \* sleep_data.get raises AttributeError, uncaught
                               /\ log' = log \o <<Ev("delay", d), Ev("fetch", d)>>
                               /\ pc' = "failed"
                               /\ raised' = TRUE
                               /\ UNCHANGED <<i, props, k, skipped>>
                          ELSE IF p = NoProps
                          THEN /\ log' = log \o <<Ev("delay", d), Ev("fetch", d),
                                                  Ev("skipped", d)>>
                               /\ skipped' = skipped + 1
                               /\ i' = i + 1
                               /\ UNCHANGED <<pc, raised, props, k>>
                          ELSE /\ log' = log \o <<Ev("delay", d), Ev("fetch", d)>>
                               /\ props' = p
                               /\ k' = 0
                               /\ pc' = "write"
                               /\ UNCHANGED <<i, raised, skipped>>
                       /\ UNCHANGED errors
    /\ UNCHANGED <<others, params, db, run, db_start, indexer, created, updated>>

\* Variant: a page is created whatever the index holds.
IsCreate_Always(pages) == TRUE

\* `if not pages:` (Rule 1, create) against `else:` (Rule 2, update)
IsCreate(pages) == pages = <<>>

\* Variant: the created page is entered into the index.
IndexAfterCreate_Add(index, d, page_id, p) ==
    AppendEntry(index, d, [page_id |-> page_id, resting_hr |-> p.RestingHR])

\* Lines 252-257: the create branch writes to the database only;
\* existing_by_date is not assigned after line 211.
IndexAfterCreate(index, d, page_id, p) == index

\* Lines 250-257 and 271-274: the delay and the create-page call.
CreatePage ==
    /\ program = "sleep"
    /\ pc = "write"
    /\ LET d == LoopDate(i)
       IN  /\ IsCreate(PagesOf(d))
           /\ \/ /\ db' = StoreCreate(db, props)
                 /\ by_date' = IndexAfterCreate(by_date, d, Len(db) + 1, props)
                 /\ created' = created + 1
                 /\ log' = log \o <<Ev("delay", d),
                                    Event("create", d, 0, TRUE, props),
                                    Ev("created", d)>>
                 /\ pc' = "loop"
                 /\ i' = i + 1
                 /\ UNCHANGED <<errors, raised>>
              \/ /\ MayRaise
                 /\ log' = log \o <<Ev("delay", d),
                                    Event("create", d, 0, FALSE, props),
                                    Ev("errors", d)>>
                 /\ errors' = errors + 1
                 /\ raised' = TRUE
                 /\ pc' = AfterError
                 /\ i' = IF AfterError = "loop" THEN i + 1 ELSE i
                 /\ UNCHANGED <<db, by_date, created>>
    /\ props' = NoProps
    /\ UNCHANGED <<others, params, fixture, run, db_start, start_cursor, k, updated,
                   skipped, duplicate_dates>>

\* Variant: only the first page of the date is updated.
PagesToUpdate_First(pages) == SubSeq(pages, 1, 1)

\* `for p in pages:` of Rule 2
PagesToUpdate(pages) == pages

\* Variant: the pages of the date are put back as they were at the start of
\* the run.
StoreAfterUpdateError_Rollback(store, before, d) ==
    [ n \in 1..Len(store) |->
        IF n <= Len(before) /\ before[n].date = d THEN before[n] ELSE store[n] ]

\* Lines 271-274: the except clause counts the error and continues; it makes
\* no write, so the store keeps the updates already applied for the date.
StoreAfterUpdateError(store, before, d) == store

\* Lines 250-251, 259-274: one update-page call of the loop over the pages of
\* the date (the delay precedes the first one only).
UpdatePage ==
    /\ program = "sleep"
    /\ pc = "write"
    /\ LET d == LoopDate(i)
           targets == PagesToUpdate(PagesOf(d))
           p == targets[k + 1]
           delay == IF k = 0 THEN <<Ev("delay", d)>> ELSE <<>>
       IN  /\ ~IsCreate(PagesOf(d))
           /\ \/ /\ db' = StoreUpdate(db, p.page_id, props)
                 /\ updated' = updated + 1
                 /\ log' = log \o delay
                               \o <<Event("update", d, p.page_id, TRUE, props),
                                    Ev("updated", d)>>
                 /\ IF k + 1 = Len(targets)
                    THEN /\ pc' = "loop"
                         /\ i' = i + 1
                         /\ k' = 0
                         /\ props' = NoProps
                    ELSE /\ k' = k + 1
                         /\ UNCHANGED <<pc, i, props>>
                 /\ UNCHANGED <<errors, raised>>
              \/ /\ MayRaise
                 /\ log' = log \o delay
                               \o <<Event("update", d, p.page_id, FALSE, props),
                                    Ev("errors", d)>>
                 /\ errors' = errors + 1
                 /\ raised' = TRUE
                 /\ pc' = AfterError
                 /\ i' = IF AfterError = "loop" THEN i + 1 ELSE i
                 /\ k' = 0
                 /\ props' = NoProps
                 /\ db' = StoreAfterUpdateError(db, db_start, d)
                 /\ UNCHANGED updated
    /\ UNCHANGED <<others, params, fixture, run, db_start, indexer, created, skipped,
                   duplicate_dates>>

\* Lines 276-281: the summary.
Finish ==
    /\ program = "sleep"
    /\ pc = "loop"
    /\ i = n_days
    /\ pc' = "done"
    /\ log' = Append(log, Ev("summary", None))
    /\ UNCHANGED <<others, params, db, fixture, run, raised, db_start, indexer, i,
                   props, k, counters>>

\* The script is started again over the same window with the same upstream
\* data (followed after a first run in which nothing raised).
Rerun ==
    /\ program = "sleep"
    /\ pc = "done"
    /\ run = 1
    /\ ~raised
    /\ run' = 2
    /\ pc' = "start"
    /\ db_start' = db
    /\ start_cursor' = None
    /\ by_date' = EmptyIndex
    /\ i' = 0
    /\ created' = 0 /\ updated' = 0 /\ skipped' = 0 /\ errors' = 0
    /\ duplicate_dates' = 0
    /\ UNCHANGED <<others, params, db, fixture, raised, props, k, log>>

Next ==
    \/ SleepStart
    \/ QueryPage
    \/ SkipDate
    \/ FetchDate
    \/ CreatePage
    \/ UpdatePage
    \/ Finish
    \/ Rerun

Spec == Init /\ [][Next]_vars

NextIndex ==
    \/ SleepStart
    \/ QueryPage

SpecIndex == InitIndex /\ [][NextIndex]_vars

\* A run over the three-day window [1, 2, 3] on a store that holds a valid
\* page for day 1, a page with Resting HR = 0 for day 2 and no page for day 3.
ScenarioDb ==
    PagesOfKinds(<< [date |-> 1, rhr |-> 60], [date |-> 2, rhr |-> 0] >>)

InitScenario ==
    /\ program = "sleep"
    /\ config_ok \in BOOLEAN
    /\ skip_zero_sleep \in BOOLEAN
    /\ today_kst = 3
    /\ n_days = 3
    /\ db = ScenarioDb
    /\ InitLocals
    /\ field_seconds = None

SpecScenario == InitScenario /\ [][Next]_vars


\* ------------------------------------------------- daily-steps.py: main
\* lookback_days = 365 in the code; the model looks back MaxDays days, so the
\* loop runs over the days 1 .. MaxDays and today is MaxDays + 1.
lookback_days == MaxDays
start_date == today_kst - lookback_days

StepsPageKinds == [date : 1..MaxDays, steps : {4000, 5000}]

InitialStepsDbs ==
    { [ n \in 1..Len(t) |->
          [ id |-> n, date |-> t[n].date, steps |-> t[n].steps,
            goal |-> 8000, dist |-> 346 ] ] :
        t \in { u \in UNION { [1..m -> StepsPageKinds] : m \in 0..MaxPages } :
                  DateSorted(u) } }

InitSteps ==
    /\ program = "steps"
    /\ config_ok \in BOOLEAN
    /\ skip_zero_sleep = TRUE
    /\ n_days = lookback_days
    /\ today_kst = MaxDays + 1
    /\ db \in InitialStepsDbs
    /\ InitLocals
    /\ field_seconds = None

sleepLocals == <<indexer, i, props, k, counters>>

\* Lines 106-135: settings check, login, start of the loop.
StepsStart ==
    /\ program = "steps"
    /\ pc = "start"
    /\ \/ /\ ~config_ok
          /\ pc' = "returned"
          /\ UNCHANGED <<log, raised, steps_day>>
       \/ /\ config_ok
          /\ log' = Append(log, Ev("login", None))
          /\ pc' = "loop"
          /\ steps_day' = start_date
          /\ UNCHANGED raised
       \/ /\ config_ok
          /\ MayRaise
          /\ log' = Append(log, Event("login", None, 0, FALSE, NoProps))
          /\ pc' = "returned"
          /\ raised' = TRUE
          /\ UNCHANGED steps_day
    /\ UNCHANGED <<params, db, fixture, run, db_start, sleepLocals, steps_data,
                   existing_steps, activities>>

\* Lines 136-139, 149-150 and get_daily_steps_for_date: the Garmin call of one
\* iteration; with no data the iteration ends with the delay.
StepsFetch ==
    /\ program = "steps"
    /\ pc = "loop"
    /\ steps_day < today_kst
    /\ \/ /\ MayRaise
          /\ log' = log \o <<Event("fetch", steps_day, 0, FALSE, NoProps),
                             Ev("delay", steps_day)>>
          /\ raised' = TRUE
          /\ steps_day' = steps_day + 1
          /\ UNCHANGED <<fixture, steps_data, pc>>
       \/ \E kind \in (IF fixture[steps_day] = "unknown" THEN StepsKinds
                                                         ELSE {fixture[steps_day]}) :
            LET result == StepsPayload(kind, steps_day)
            IN  /\ fixture' = [fixture EXCEPT ![steps_day] = kind]
                /\ IF result = <<>>
                   THEN /\ log' = log \o <<Ev("fetch", steps_day),
                                           Ev("delay", steps_day)>>
                        /\ steps_day' = steps_day + 1
                        /\ UNCHANGED <<steps_data, pc>>
                   ELSE /\ log' = Append(log, Ev("fetch", steps_day))
                        /\ steps_data' = result[1]
                        /\ pc' = "exist"
                        /\ UNCHANGED steps_day
                /\ UNCHANGED raised
    /\ UNCHANGED <<params, db, run, db_start, sleepLocals, existing_steps,
                   activities>>

\* existing_steps = daily_steps_exist(client, database_id, steps_date)
LookupKey(steps, loop_date) == steps.calendarDate

\* What daily_steps_exist and activity_exists return when the query raises.
ExistsOnError(store, key) == NoPage

\* Lines 140-147, 74-81 and daily_steps_exist: the existence query and the
\* choice between update, create and nothing.
StepsExist ==
    /\ program = "steps"
    /\ pc = "exist"
    /\ LET steps_date == LookupKey(steps_data, steps_day)
       IN  \E ok \in {TRUE} \cup (IF MayRaise THEN {FALSE} ELSE {}) :
             LET found == IF ok THEN FirstOrNone(StoreLookup(db, steps_date))
                                ELSE ExistsOnError(db, steps_date)
                 lookup == Event("exists", steps_day, 0, ok,
                                 [Date |-> steps_date])
             IN  /\ raised' = (raised \/ ~ok)
                 /\ IF found # NoPage
                    THEN IF steps_need_update(found, steps_data)
                         THEN /\ existing_steps' = found
                              /\ pc' = "update"
                              /\ log' = Append(log, lookup)
                              /\ UNCHANGED <<steps_day, steps_data>>
                         ELSE /\ log' = log \o <<lookup, Ev("delay", steps_day)>>
                              /\ pc' = "loop"
                              /\ steps_day' = steps_day + 1
                              /\ steps_data' = NoSteps
                              /\ UNCHANGED existing_steps
                    ELSE IF SkipsZeroSteps(steps_data, TRUE)
                         THEN /\ log' = log \o <<lookup, Ev("delay", steps_day)>>
                              /\ pc' = "loop"
                              /\ steps_day' = steps_day + 1
                              /\ steps_data' = NoSteps
                              /\ UNCHANGED existing_steps
                         ELSE /\ log' = Append(log, lookup)
                              /\ pc' = "create"
                              /\ UNCHANGED <<steps_day, steps_data,
                                             existing_steps>>
    /\ UNCHANGED <<params, db, fixture, run, db_start, sleepLocals, activities>>

\* create_daily_steps, lines 83-102, and the end of the iteration.
StepsCreate ==
    /\ program = "steps"
    /\ pc = "create"
    /\ LET properties == StepsCreateProps(steps_data, steps_day)
       IN  \/ /\ db' = StepsStoreCreate(db, properties)
              /\ log' = log \o <<Event("create", steps_day, 0, TRUE, properties),
                                 Ev("delay", steps_day)>>
              /\ UNCHANGED raised
           \/ /\ MayRaise
              /\ log' = log \o <<Event("create", steps_day, 0, FALSE, properties),
                                 Ev("delay", steps_day)>>
              /\ raised' = TRUE
              /\ UNCHANGED db
    /\ pc' = "loop"
    /\ steps_day' = steps_day + 1
    /\ steps_data' = NoSteps
    /\ UNCHANGED <<params, fixture, run, db_start, sleepLocals, existing_steps,
                   activities>>

\* update_daily_steps, and the end of the iteration.
StepsUpdate ==
    /\ program = "steps"
    /\ pc = "update"
    /\ LET properties == StepsUpdateProps(steps_data)
       IN  \/ /\ db' = StepsStoreUpdate(db, existing_steps.id, properties)
              /\ log' = log \o <<Event("update", steps_day, existing_steps.id,
                                       TRUE, properties),
                                 Ev("delay", steps_day)>>
              /\ UNCHANGED raised
           \/ /\ MayRaise
              /\ log' = log \o <<Event("update", steps_day, existing_steps.id,
                                       FALSE, properties),
                                 Ev("delay", steps_day)>>
              /\ raised' = TRUE
              /\ UNCHANGED db
    /\ pc' = "loop"
    /\ steps_day' = steps_day + 1
    /\ steps_data' = NoSteps
    /\ existing_steps' = NoPage
    /\ UNCHANGED <<params, fixture, run, db_start, sleepLocals, activities>>

\* Line 152: the loop has reached today.
StepsFinish ==
    /\ program = "steps"
    /\ pc = "loop"
    /\ steps_day = today_kst
    /\ pc' = "done"
    /\ log' = Append(log, Ev("summary", None))
    /\ UNCHANGED <<params, db, fixture, run, raised, db_start, sleepLocals,
                   others>>

\* The steps script is started again on the same day with the same upstream
\* data (followed after a first run in which nothing raised).
StepsRerun ==
    /\ program = "steps"
    /\ pc = "done"
    /\ run = 1
    /\ ~raised
    /\ run' = 2
    /\ pc' = "start"
    /\ db_start' = db
    /\ steps_day' = None
    /\ UNCHANGED <<params, db, fixture, raised, sleepLocals, steps_data,
                   existing_steps, activities, log>>

\* ---------------------------------------------- garmin-activities.py: main
\* An activity is its startTimeGMT, the key of the duplicate check; the other
\* fields of an activity page are formatting of the payload.
ActivityLists == UNION { [1..m -> 1..MaxDays] : m \in 0..MaxPages }

InitialActivityDbs ==
    { [ n \in 1..Len(t) |-> [ id |-> n, date |-> t[n] ] ] :
        t \in { u \in UNION { [1..m -> 1..MaxDays] : m \in 0..MaxPages } :
                  \A n \in 1..(Len(u) - 1) : u[n] <= u[n + 1] } }

InitActivities ==
    /\ program = "activities"
    /\ config_ok \in BOOLEAN
    /\ skip_zero_sleep = TRUE
    /\ n_days = MaxDays
    /\ today_kst = MaxDays
    /\ db \in InitialActivityDbs
    /\ InitLocals
    /\ field_seconds = None

\* Lines 173-184: the settings are read and not checked; login is called with
\* whatever was read (without credentials it raises).
ActStart ==
    /\ program = "activities"
    /\ pc = "start"
    /\ \/ /\ config_ok
          /\ log' = Append(log, Ev("login", None))
          /\ pc' = "list"
          /\ UNCHANGED raised
       \/ /\ ~config_ok \/ MayRaise
          /\ log' = Append(log, Event("login", None, 0, FALSE, NoProps))
          /\ pc' = "failed"
          /\ raised' = TRUE
    /\ UNCHANGED <<params, db, fixture, run, db_start, sleepLocals, others>>

\* Line 187: get_all_activities.
ActList ==
    /\ program = "activities"
    /\ pc = "list"
    /\ \/ \E acts \in ActivityLists :
            /\ activities' = acts
            /\ log' = Append(log, Ev("fetch", None))
            /\ pc' = "loop"
            /\ UNCHANGED raised
       \/ /\ MayRaise
          /\ log' = Append(log, Event("fetch", None, 0, FALSE, NoProps))
          /\ pc' = "failed"
          /\ raised' = TRUE
          /\ UNCHANGED activities
    /\ UNCHANGED <<params, db, fixture, run, db_start, sleepLocals, steps_day,
                   steps_data, existing_steps>>

\* Lines 190-195 and activity_exists: the duplicate check of one activity.
ActExists ==
    /\ program = "activities"
    /\ pc = "loop"
    /\ i < Len(activities)
    /\ LET activity_date == activities[i + 1]
       IN  \E ok \in {TRUE} \cup (IF MayRaise THEN {FALSE} ELSE {}) :
             LET found == IF ok THEN FirstOrNone(StoreLookup(db, activity_date))
                                ELSE ExistsOnError(db, activity_date)
             IN  /\ log' = Append(log, Event("exists", activity_date, 0, ok,
                                             [Date |-> activity_date]))
                 /\ raised' = (raised \/ ~ok)
                 /\ IF found = NoPage
                    THEN pc' = "create" /\ UNCHANGED i
                    ELSE i' = i + 1 /\ UNCHANGED pc
    /\ UNCHANGED <<params, db, fixture, run, db_start, indexer, props, k,
                   counters, others>>

\* create_activity, lines 124-169.
ActCreate ==
    /\ program = "activities"
    /\ pc = "create"
    /\ LET activity_date == activities[i + 1]
           properties == [Date |-> activity_date]
       IN  \/ /\ db' = Append(db, [ id |-> Len(db) + 1, date |-> activity_date ])
              /\ log' = Append(log, Event("create", activity_date, 0, TRUE,
                                          properties))
              /\ UNCHANGED raised
           \/ /\ MayRaise
              /\ log' = Append(log, Event("create", activity_date, 0, FALSE,
                                          properties))
              /\ raised' = TRUE
              /\ UNCHANGED db
    /\ pc' = "loop"
    /\ i' = i + 1
    /\ UNCHANGED <<params, fixture, run, db_start, indexer, props, k, counters,
                   others>>

\* Line 197: every activity has been handled.
ActFinish ==
    /\ program = "activities"
    /\ pc = "loop"
    /\ i = Len(activities)
    /\ pc' = "done"
    /\ log' = Append(log, Ev("summary", None))
    /\ UNCHANGED <<params, db, fixture, run, raised, db_start, sleepLocals,
                   others>>

InitStepsActivities == InitSteps \/ InitActivities

NextStepsActivities ==
    \/ StepsStart
    \/ StepsFetch
    \/ StepsExist
    \/ StepsCreate
    \/ StepsUpdate
    \/ StepsFinish
    \/ StepsRerun
    \/ ActStart
    \/ ActList
    \/ ActExists
    \/ ActCreate
    \/ ActFinish

SpecStepsActivities == InitStepsActivities /\ [][NextStepsActivities]_vars

\* ------------------------------------------- the duration fields alone
\* Largest number of seconds a field holds.
MaxSeconds == 7400

\* One seconds field of a dailySleepDTO: a number, or absent.
InitFormat ==
    /\ program = "format"
    /\ config_ok = TRUE
    /\ skip_zero_sleep = TRUE
    /\ today_kst = MaxDays
    /\ n_days = 1
    /\ db = <<>>
    /\ InitLocals
    /\ field_seconds \in (0..MaxSeconds) \cup {None}

\* Lines 134 and 140: the two properties built from the lightSleepSeconds
\* field, the hour value round((x or 0) / 3600, 1) and the display string
\* format_duration(x).
FormatField ==
    /\ program = "format"
    /\ pc = "start"
    /\ \E hours \in RoundedTenths(Or0(field_seconds)) :
         props' = [ Date        |-> None,
                    LightSleepH |-> hours,
                    LightSleep  |-> format_duration(field_seconds) ]
    /\ pc' = "done"
    /\ UNCHANGED <<params, others, db, fixture, run, raised, db_start, indexer, i, k,
                   counters, log>>

NextFormat == FormatField

SpecFormat == InitFormat /\ [][NextFormat]_vars

\* The three entry points together: one of the three programs is started.
InitAll == Init \/ InitStepsActivities

NextAll == Next \/ NextStepsActivities

SpecAll == InitAll /\ [][NextAll]_vars

\* ===================================================== sleep sync: claims
\* Positions of the current run's log entries of operation op for date d.
Calls(op, d) ==
    { n \in 1..Len(log) : log[n].run = run /\ log[n].op = op /\ log[n].d = d }

NCalls(op, d) == Cardinality(Calls(op, d))

\* Positions of the current run's create and update calls, whatever the date.
Writes ==
    { n \in 1..Len(log) : log[n].run = run /\ log[n].op \in {"create", "update"} }

\* External calls of the per-date loop that raised in the current run.
FailedCalls(d) ==
    { n \in 1..Len(log) : /\ log[n].run = run
                          /\ log[n].op \in {"fetch", "create", "update"}
                          /\ log[n].d = d
                          /\ ~log[n].ok }

\* The index is complete and the per-date loop is running or has ended.
InLoop == program = "sleep" /\ pc \in {"loop", "write", "done"}

\* The loop has finished date d.
Reconciled(d) == InLoop /\ d \in Window /\ d < LoopDate(i)

IndexHasValid(d) == \E n \in 1..Len(by_date[d]) : by_date[d][n].resting_hr > 0

\* The upstream record of d, as served, is accepted by the normalizer.
Rejected(d) ==
    \/ fixture[d] \in {"empty", "no_ts", "no_end"}
    \/ fixture[d] = "zero" /\ skip_zero_sleep

Normalizes(d) == fixture[d] \in {"zero", "good", "no_hr"} /\ ~Rejected(d)

\* The resting heart rate the upstream record of d carries (0 when absent).
SourceHr(d) ==
    CASE fixture[d] = "good" -> 58
      [] fixture[d] = "zero" -> 58
      [] OTHER -> 0

StoredPages(store, d) == { n \in 1..Len(store) : store[n].date = d }

StoredValid(store, d) == \E n \in StoredPages(store, d) : Or0(store[n].rhr) > 0

\* ---- C1
\* C1 as stated: after two runs in which nothing raised, the second run made no
\* create and no update, and every date that had a record after the first run
\* was counted as skipped.
C1_Original ==
    (program = "sleep" /\ pc = "done" /\ run = 2) =>
        /\ Writes = {}
        /\ \A d \in Window :
             StoredPages(db_start, d) # {} => NCalls("skipped", d) = 1

\* C1 amended: after two runs in which nothing raised, the second run made no
\* create; every date that had a record with Resting HR > 0 after the first run
\* was counted as skipped with no fetch and no write; an update of the second
\* run goes to a date whose records all had Resting HR = 0 after the first
\* run; and the second run left the content of the store as it was.
C1_SecondRunNoOp ==
    (program = "sleep" /\ pc = "done" /\ run = 2) =>
        /\ \A n \in Writes : log[n].op = "update"
        /\ \A d \in Window :
             StoredValid(db_start, d) =>
                /\ NCalls("skipped", d) = 1
                /\ NCalls("fetch", d) = 0
                /\ NCalls("create", d) = 0
                /\ NCalls("update", d) = 0
        /\ \A n \in Writes :
             /\ StoredPages(db_start, log[n].d) # {}
             /\ ~StoredValid(db_start, log[n].d)
        /\ db = db_start

\* A second run that finished and updated a record again, and skipped a date
\* with a valid record.
C1_Witness ==
    /\ program = "sleep" /\ pc = "done" /\ run = 2
    /\ Writes # {}
    /\ \E d \in Window : StoredValid(db_start, d) /\ NCalls("skipped", d) = 1

\* ---- C2
NoErrorOn(d) == FailedCalls(d) = {}

\* C2 as stated: after a run, every date on which nothing raised has a record
\* with Resting HR > 0 or has no record.
C2_Original ==
    (program = "sleep" /\ pc = "done") =>
        \A d \in Window :
            NoErrorOn(d) => StoredValid(db, d) \/ StoredPages(db, d) = {}

\* C2 amended: after a run, every date on which nothing raised has a record
\* with Resting HR > 0, or has no record, or has only records with Resting
\* HR = 0 and an upstream record that the normalizer rejects or that carries no
\* positive resting heart rate.
C2_ValidOrAbsentOrNoSourceHr ==
    (program = "sleep" /\ pc = "done") =>
        \A d \in Window :
            NoErrorOn(d) =>
                \/ StoredValid(db, d)
                \/ StoredPages(db, d) = {}
                \/ /\ fixture[d] # "unknown"
                   /\ Rejected(d) \/ (Normalizes(d) /\ SourceHr(d) = 0)

\* A finished run that wrote a valid record from a payload whose heart rate
\* sits in dailySleepDTO, and left a placeholder whose source was rejected.
C2_Witness ==
    /\ program = "sleep" /\ pc = "done"
    /\ \E d \in Window :
         NoErrorOn(d) /\ fixture[d] = "good" /\ StoredValid(db, d)
            /\ NCalls("fetch", d) = 1
    /\ \E d \in Window :
         NoErrorOn(d) /\ ~StoredValid(db, d) /\ StoredPages(db, d) # {}
            /\ Rejected(d)

\* ---- C3
\* C3: a date whose index entries include one with Resting HR > 0 is counted
\* as skipped once the loop has passed it, and no fetch, create or update is
\* made for it in the run.
C3_ValidDateSkipped ==
    InLoop =>
        \A d \in Window :
            IndexHasValid(d) =>
                /\ Reconciled(d) => NCalls("skipped", d) = 1
                /\ NCalls("fetch", d) = 0
                /\ NCalls("create", d) = 0
                /\ NCalls("update", d) = 0

\* A reconciled date whose first entry has Resting HR = 0 and whose second has
\* Resting HR > 0.
C3_Witness ==
    /\ InLoop
    /\ \E d \in Window :
         /\ Reconciled(d)
         /\ Len(by_date[d]) = 2
         /\ by_date[d][1].resting_hr = 0
         /\ by_date[d][2].resting_hr > 0
         /\ NCalls("skipped", d) = 1

\* ---- C4
FetchedOk(d) == \E n \in Calls("fetch", d) : log[n].ok

\* C4: a create-page call is made only for a date with no index entry, at most
\* once per date and run; a reconciled date with no index entry whose fetched
\* record normalizes has exactly one create call and no update call.
C4_CreateOnlyWhenAbsent ==
    InLoop =>
        \A d \in Window :
            /\ NCalls("create", d) >= 1 => by_date[d] = <<>>
            /\ NCalls("create", d) <= 1
            /\ (Reconciled(d) /\ by_date[d] = <<>> /\ FetchedOk(d) /\ Normalizes(d))
                  => NCalls("create", d) = 1 /\ NCalls("update", d) = 0

\* A finished run with a created date and an updated date.
C4_Witness ==
    /\ InLoop /\ pc = "done"
    /\ \E d \in Window : by_date[d] = <<>> /\ NCalls("create", d) = 1
    /\ \E d \in Window : by_date[d] # <<>> /\ NCalls("update", d) >= 1

\* ---- C5
UpdatesOf(d, page_id) == { n \in Calls("update", d) : log[n].id = page_id }

\* C5: for a reconciled date whose index entries all have Resting HR = 0,
\* whose fetched record normalizes and on which no call raised, every index
\* entry has exactly one update call, all update calls carry the same
\* properties, and there is no create call.
C5_DuplicateRepair ==
    InLoop =>
        \A d \in Window :
            ( /\ Reconciled(d)
              /\ by_date[d] # <<>>
              /\ ~IndexHasValid(d)
              /\ FetchedOk(d) /\ Normalizes(d)
              /\ NoErrorOn(d) )
            => /\ \A n \in 1..Len(by_date[d]) :
                    Cardinality(UpdatesOf(d, by_date[d][n].page_id)) = 1
               /\ \A m, n \in Calls("update", d) : log[m].props = log[n].props
               /\ NCalls("update", d) = Len(by_date[d])
               /\ NCalls("create", d) = 0

\* A reconciled date with two placeholder entries, both updated.
C5_Witness ==
    /\ InLoop
    /\ \E d \in Window :
         /\ Reconciled(d)
         /\ Len(by_date[d]) = 2
         /\ ~IndexHasValid(d)
         /\ NoErrorOn(d)
         /\ NCalls("update", d) = 2

\* ---- C6
\* C6: every create and update call made while reconciling date d carries
\* Date = d.
C6_DatePinnedSleep ==
    program = "sleep" =>
        \A n \in 1..Len(log) :
            log[n].op \in {"create", "update"} => log[n].props.Date = log[n].d

\* A create and an update made from payloads whose calendarDate is the day
\* before the loop date.
C6_Witness ==
    /\ program = "sleep"
    /\ \E n \in 1..Len(log) :
         /\ log[n].op = "create" /\ log[n].ok
         /\ SleepPayload(fixture[log[n].d], log[n].d).calendarDate # log[n].d
    /\ \E n \in 1..Len(log) :
         /\ log[n].op = "update" /\ log[n].ok
         /\ SleepPayload(fixture[log[n].d], log[n].d).calendarDate # log[n].d

\* ---- C9
AllFailedCalls == UNION { FailedCalls(d) : d \in Window }

Counted(d) ==
    NCalls("skipped", d) + NCalls("created", d) + NCalls("updated", d)
        + NCalls("errors", d) >= 1

\* C9: a fetch or write that raises on date d adds one to errors, ends the
\* work on d and moves the loop to the next date; the run never ends at a
\* fetch or write that raised, and a finished run has counted every date of the
\* window.
C9_FailureIsolation ==
    program = "sleep" =>
        /\ pc = "failed" =>
             \/ log = <<>>
             \/ /\ log[Len(log)].op \in {"login", "query", "fetch"}
                /\ log[Len(log)].op = "fetch" => log[Len(log)].ok
        /\ InLoop =>
             /\ errors = Cardinality(AllFailedCalls)
             /\ \A n \in AllFailedCalls :
                  /\ n < Len(log)
                  /\ log[n + 1].op = "errors" /\ log[n + 1].d = log[n].d
                  /\ NCalls("errors", log[n].d) = 1
                  /\ LoopDate(i) > log[n].d
                  /\ \A m \in (n + 2)..Len(log) :
                       log[m].run = run => log[m].d # log[n].d
        /\ (InLoop /\ pc = "done") => \A d \in Window : Counted(d)

\* A finished run in which the fetch of one date raised and a later date was
\* written.
C9_Witness ==
    /\ InLoop /\ pc = "done"
    /\ \E d, e \in Window :
         /\ d < e
         /\ \E n \in FailedCalls(d) : log[n].op = "fetch"
         /\ NCalls("created", e) + NCalls("updated", e) >= 1


\* ---- C10
\* Pages of the store the range query returns and that carry a Date.
Indexable ==
    { n \in 1..Len(db) : db[n].date # None /\ Matches(db[n], start_day, end_day) }

\* Positions of page_id in the index list of date d.
SlotsOf(d, page_id) ==
    { m \in 1..Len(by_date[d]) : by_date[d][m].page_id = page_id }

QueriesOk ==
    { n \in 1..Len(log) : log[n].run = run /\ log[n].op = "query" /\ log[n].ok }

ResponsesNeeded ==
    LET total == Len(Matching(db, start_day, end_day))
    IN  IF total = 0 THEN 1 ELSE (total + PageLimit - 1) \div PageLimit

\* C10: when indexing has ended, it has fetched every response of the result
\* set; every returned page with a Date is exactly once in the list of its date
\* and in no other list; the lists hold nothing else; a page without a Resting
\* HR number has validity value 0.
C10_IndexComplete ==
    (program = "sleep" /\ pc = "loop") =>
        /\ Cardinality(QueriesOk) = ResponsesNeeded
        /\ \A n \in Indexable :
             /\ Cardinality(SlotsOf(db[n].date, db[n].id)) = 1
             /\ \A d \in Dates \ {db[n].date} : SlotsOf(d, db[n].id) = {}
             /\ \A m \in SlotsOf(db[n].date, db[n].id) :
                  by_date[db[n].date][m].resting_hr =
                      (IF db[n].rhr = None THEN 0 ELSE db[n].rhr)
        /\ SumSeq([d \in Dates |-> Len(by_date[d])]) = Cardinality(Indexable)

\* An index built from three responses: two pages share a date, one of them has
\* no Resting HR number, and a third page has no Date.
C10_Witness ==
    /\ program = "sleep" /\ pc = "loop"
    /\ Cardinality(QueriesOk) >= 3
    /\ \E d \in Dates :
         /\ Len(by_date[d]) = 2
         /\ \E n \in Indexable : db[n].date = d /\ db[n].rhr = None
    /\ \E n \in 1..Len(db) : db[n].date = None


\* ========================================= steps and activities: claims
\* ---- C7
\* C7: in the steps sync every create call made while reconciling loop date d
\* carries Date = d, and every existence lookup made while reconciling d asks
\* for d.
C7_DatePinnedSteps ==
    program = "steps" =>
        \A n \in 1..Len(log) :
            log[n].op \in {"create", "exists"} => log[n].props.Date = log[n].d

\* ---- C8
\* Pages created since the run started.
CreatedPages == (Len(db_start) + 1)..Len(db)

\* C8, steps: no page is created for a date the store already held a page for
\* (pages keep their Date, so the pages before a created one are the store it
\* was created into), and a date that started with at most one page has at most
\* one.
C8_Steps ==
    program = "steps" =>
        /\ \A n \in CreatedPages : \A m \in 1..(n - 1) : db[m].date # db[n].date
        /\ \A key \in 0..today_kst :
             Cardinality(StoredPages(db_start, key)) <= 1
                => Cardinality(StoredPages(db, key)) <= 1

\* C8, activities: the same for the start time of an activity.
C8_Activities ==
    program = "activities" =>
        /\ \A n \in CreatedPages : \A m \in 1..(n - 1) : db[m].date # db[n].date
        /\ \A key \in 0..today_kst :
             Cardinality(StoredPages(db_start, key)) <= 1
                => Cardinality(StoredPages(db, key)) <= 1

\* C8: the steps sync and the activities sync never create a record for a key
\* the store already holds a record for, whatever the existence query returns
\* or raises, so a key that started with at most one record keeps at most one.
C8_NoDuplicateCreate == C8_Steps /\ C8_Activities


\* =============================================== sleep sync: more claims
\* Positions of the current run's log entries of operation op.
RunCalls(op) == { n \in 1..Len(log) : log[n].run = run /\ log[n].op = op }

\* The current run's fetch, create and update calls.
LoopCalls == RunCalls("fetch") \cup RunCalls("create") \cup RunCalls("update")

\* ---- C11
\* C11: when a page query of the indexing step has raised, the run has failed
\* and has made no fetch, no create and no update.
C11_IndexAllOrNothing ==
    program = "sleep" =>
        \A n \in RunCalls("query") :
            ~log[n].ok => /\ pc = "failed"
                          /\ n = Len(log)
                          /\ LoopCalls = {}

\* A run that failed at its second query, with the first response indexed.
C11_Witness ==
    /\ program = "sleep" /\ pc = "failed"
    /\ \E n \in RunCalls("query") : ~log[n].ok
    /\ \E n \in RunCalls("query") : log[n].ok
    /\ \E d \in Dates : by_date[d] # <<>>


\* ---- C12
\* The upstream record of d lacks the start or the end timestamp.
LacksTimestamp(d) == fixture[d] \in {"no_ts", "no_end"}

\* C12: the normalizer rejects a record without start or end timestamp for
\* both values of the skip-zero policy; a reconciled date whose fetched record
\* is such a record has no create and no update, one skipped count and no
\* error, whether its index list is empty or holds only invalid entries.
C12_MissingTimestampRejected ==
    program = "sleep" =>
        /\ \A kind \in {"no_ts", "no_end"}, d \in Dates, sz \in BOOLEAN :
               build_sleep_properties_for_target_date(SleepPayload(kind, d), d, sz)
                   = NoProps
        /\ \A d \in Window :
               (Reconciled(d) /\ FetchedOk(d) /\ LacksTimestamp(d)) =>
                   /\ NCalls("create", d) = 0
                   /\ NCalls("update", d) = 0
                   /\ NCalls("skipped", d) = 1
                   /\ NCalls("errors", d) = 0
                   /\ StoredPages(db, d) = StoredPages(db_start, d)

\* A finished run with the skip-zero policy off: one date with no index entry
\* whose record lacks the start timestamp, and one date with only an invalid
\* entry whose record lacks the end timestamp.
C12_Witness ==
    /\ InLoop /\ pc = "done" /\ ~skip_zero_sleep
    /\ \E d, e \in Window :
         /\ FetchedOk(d) /\ fixture[d] = "no_ts" /\ by_date[d] = <<>>
         /\ FetchedOk(e) /\ fixture[e] = "no_end"
         /\ by_date[e] # <<>> /\ ~IndexHasValid(e)
         /\ NCalls("skipped", d) = 1 /\ NCalls("skipped", e) = 1


\* ---- C13
\* The iteration of the steps loop for day d has ended.
StepsProcessed(d) == program = "steps" /\ steps_day # None /\ steps_day > d

\* C13: with the skip-zero policy enabled, a date with no destination entry
\* whose fetched record has a zero total (sleep seconds, or steps) has no
\* create and no update; the sleep sync counts it as skipped, and the store
\* still has no entry for it when its iteration has ended.
C13_ZeroSkipped ==
    /\ program = "sleep" =>
         \A d \in Window :
           (/\ Reconciled(d) /\ FetchedOk(d)
            /\ fixture[d] = "zero" /\ skip_zero_sleep
            /\ StoredPages(db_start, d) = {}) =>
               /\ NCalls("create", d) = 0
               /\ NCalls("update", d) = 0
               /\ NCalls("skipped", d) = 1
               /\ StoredPages(db, d) = {}
    /\ program = "steps" =>
         \A d \in start_date..(today_kst - 1) :
           (/\ StepsProcessed(d) /\ FetchedOk(d)
            /\ fixture[d] = "zero"
            /\ StoredPages(db_start, d) = {}) =>
               /\ NCalls("create", d) = 0
               /\ NCalls("update", d) = 0
               /\ (steps_day = d + 1 /\ pc = "loop") => StoredPages(db, d) = {}

\* The steps sync has passed a day with zero steps and no entry, after the
\* lookup of that day.
C13_Witness ==
    /\ program = "steps"
    /\ \E d \in start_date..(today_kst - 1) :
         /\ StepsProcessed(d) /\ FetchedOk(d) /\ fixture[d] = "zero"
         /\ StoredPages(db_start, d) = {}
         /\ NCalls("exists", d) = 1


\* ---- C14
\* C14: when a required setting is absent, the program (sleep, steps or
\* activities) makes no call: no login, no query, no fetch, no write.
C14_StopsBeforeNetwork ==
    ~config_ok => log = <<>>


\* ---- C15
\* The first run of the three-day scenario has ended, nothing has raised and
\* the upstream records of days 2 and 3 are usable.
ScenarioDone ==
    /\ program = "sleep" /\ pc = "done" /\ run = 1 /\ ~raised
    /\ today_kst = 3 /\ n_days = 3 /\ db_start = ScenarioDb
    /\ Normalizes(2) /\ Normalizes(3)

\* C15: in the three-day scenario the run makes no fetch for day 1, one update
\* (of the existing page) and no create for day 2, one create and no update
\* for day 3, and ends with created = 1, updated = 1, skipped = 1, errors = 0.
C15_Scenario ==
    ScenarioDone =>
        /\ Window = {1, 2, 3}
        /\ NCalls("fetch", 1) = 0
        /\ NCalls("create", 1) + NCalls("update", 1) = 0
        /\ NCalls("fetch", 2) = 1
        /\ NCalls("update", 2) = 1 /\ NCalls("create", 2) = 0
        /\ \A n \in Calls("update", 2) : log[n].id = 2
        /\ NCalls("fetch", 3) = 1
        /\ NCalls("create", 3) = 1 /\ NCalls("update", 3) = 0
        /\ created = 1 /\ updated = 1 /\ skipped = 1 /\ errors = 0
        /\ Len(db) = 3 /\ db[3].date = 3 /\ db[2].date = 2 /\ db[1] = db_start[1]

\* The scenario has ended with a page for day 3 in the store.
C15_Witness ==
    /\ ScenarioDone
    /\ created = 1 /\ updated = 1 /\ skipped = 1
    /\ Len(db) = 3


\* ---- C16
\* The fetch for d returned without raising and gave no data: an absent
\* result (None) or a payload without dailySleepDTO.
FetchedNoData(d) == FetchedOk(d) /\ fixture[d] \in {"none", "empty"}

\* C16: when the fetch for a date returns no data without raising, the date
\* is counted as skipped once, no write is made for it, and the run goes on to
\* the next date (it does not fail).
C16_NoDataSkipped ==
    program = "sleep" =>
        \A d \in Window :
            FetchedNoData(d) =>
                /\ NCalls("skipped", d) = 1
                /\ NCalls("create", d) + NCalls("update", d) = 0
                /\ d < LoopDate(i)
                /\ ~(pc = "failed" /\ log[Len(log)].d = d)


\* ---- C17
\* The update calls for d made before log position n.
UpdatesBefore(d, n) == { m \in Calls("update", d) : m < n }

\* The page of the store with the given id.
PageWithId(store, page_id) ==
    store[CHOOSE n \in 1..Len(store) : store[n].id = page_id]

\* C17: when the update of the k-th index entry of date d has raised, the
\* k-1 updates before it went to entries 1..k-1 and succeeded, and their pages
\* still hold the written properties; the entries from k on hold what they
\* held at the start of the run; no update or create for d follows; d has
\* exactly one error and k-1 updated counts; and the loop has moved past d.
C17_PartialUpdateFailure ==
    program = "sleep" =>
        \A d \in Window : \A n \in Calls("update", d) :
            ~log[n].ok =>
                LET done == UpdatesBefore(d, n)
                    kth == Cardinality(done) + 1
                IN  /\ kth <= Len(by_date[d])
                    /\ log[n].id = by_date[d][kth].page_id
                    /\ \A m \in done :
                         /\ log[m].ok
                         /\ log[m].id =
                              by_date[d][Cardinality(UpdatesBefore(d, m)) + 1].page_id
                         /\ PageWithId(db, log[m].id)
                              = NewSleepPage(log[m].id, log[m].props)
                    /\ \A j \in kth..Len(by_date[d]) :
                         PageWithId(db, by_date[d][j].page_id)
                           = PageWithId(db_start, by_date[d][j].page_id)
                    /\ \A m \in (n + 1)..Len(log) :
                         log[m].op \in {"fetch", "create", "update"} => log[m].d > d
                    /\ NCalls("errors", d) = 1
                    /\ NCalls("updated", d) = kth - 1
                    /\ d < LoopDate(i)
                    /\ pc = "failed" => log[Len(log)].d # d

\* The second of two updates for a date has raised after the first was
\* applied with new values, and a later date has been reconciled.
C17_Witness ==
    /\ InLoop
    /\ \E d, e \in Window :
         /\ d < e /\ Reconciled(e) /\ Counted(e)
         /\ \E m, n \in Calls("update", d) :
              /\ m < n /\ log[m].ok /\ ~log[n].ok
              /\ PageWithId(db, log[m].id) # PageWithId(db_start, log[m].id)


\* ---- C18
\* Positions of the current run's log entries made inside the per-date loop.
LoopEntries == { n \in 1..Len(log) : log[n].run = run /\ log[n].d # None }

\* C18: a run fails only at the login or at a query of the indexing step;
\* the entries of the loop are for dates of the window, in ascending order
\* (so each date is worked on in one iteration only); and a run that has ended
\* has worked on every date of today-(N-1) .. today, has counted each of them,
\* and its last entry is its only summary.
C18_CoverageTermination ==
    program = "sleep" =>
        /\ (pc = "failed" /\ log # <<>>) =>
               /\ log[Len(log)].op \in {"login", "query"}
               /\ ~log[Len(log)].ok
        /\ \A n \in LoopEntries : log[n].d \in Window
        /\ \A m, n \in LoopEntries : m < n => log[m].d <= log[n].d
        /\ \A d \in Window :
               NCalls("skipped", d) + NCalls("created", d) + NCalls("errors", d) <= 1
        /\ InLoop => Window = (today_kst - (n_days - 1))..today_kst
        /\ InLoop => i <= n_days
        /\ pc = "done" =>
               /\ \A d \in Window : Counted(d)
               /\ log[Len(log)].op = "summary"
               /\ Cardinality(RunCalls("summary")) = 1


\* ---- C19
\* The index of the pages the store held at the start of the run: for each
\* date, its pages within the window in the order of the store.
SnapshotIndex ==
    [ d \in Dates |->
        LET sel == SelectSeq(db_start,
                             LAMBDA page : /\ page.date = d
                                           /\ start_day <= d /\ d <= end_day)
        IN  [ n \in 1..Len(sel) |->
                [ page_id |-> sel[n].id, resting_hr |-> Or0(sel[n].rhr) ] ] ]

\* C19: every query of a run comes before every entry of the run's per-date
\* loop (its fetches, creates, updates and counts); while the loop runs and
\* when it has ended, the index is the index of the store as it was at the
\* start of the run, whatever the run has written since.
C19_SingleSnapshot ==
    program = "sleep" =>
        /\ \A q \in RunCalls("query") : \A n \in LoopEntries : q < n
        /\ InLoop => by_date = SnapshotIndex

\* The loop has created a page for a date and has gone on: the store holds
\* the page, the index still has no entry for that date.
C19_Witness ==
    /\ InLoop
    /\ Cardinality(RunCalls("query")) >= 2
    /\ \E d \in Window :
         /\ Reconciled(d)
         /\ NCalls("created", d) = 1
         /\ StoredPages(db, d) # {}
         /\ by_date[d] = <<>>


\* ---- C20
\* The operations that are calls to Garmin or to Notion.
ExternalOps == {"login", "query", "fetch", "create", "update"}

\* A delay was made before the call at position n and after the external
\* call before it.
Paced(n) ==
    \E m \in 1..(n - 1) :
        /\ log[m].op = "delay"
        /\ log[m].run = log[n].run
        /\ \A j \in (m + 1)..(n - 1) : log[j].op \notin ExternalOps

\* C20: every fetch, create and update call of the per-date loop, the second
\* and later updates of a date included, is preceded by a delay made after
\* the previous external call.
C20_Pacing ==
    program = "sleep" =>
        \A n \in 1..Len(log) :
            log[n].op \in {"fetch", "create", "update"} => Paced(n)


\* ---- C21
\* C21: the display string of a seconds field s is "Hh Mm" with
\* H = (s div 60) div 60 and M = (s div 60) mod 60, both truncated; an absent
\* field is displayed as 0 seconds; 3599 seconds is "0h 59m"; 7384 seconds is
\* "2h 3m" with hour value 2.1.
C21_DurationTruncates ==
    (program = "format" /\ pc = "done") =>
        LET s == IF field_seconds = None THEN 0 ELSE field_seconds
            H == (s \div 60) \div 60
            M == (s \div 60) % 60
        IN  /\ props.LightSleep = ToString(H) \o "h " \o ToString(M) \o "m"
            /\ M \in 0..59 /\ H * 3600 + M * 60 <= s /\ s < H * 3600 + M * 60 + 60
            /\ field_seconds = None => props.LightSleep = "0h 0m"
            /\ field_seconds = 3599 => props.LightSleep = "0h 59m"
            /\ field_seconds = 7384 =>
                   props.LightSleep = "2h 3m" /\ props.LightSleepH = 21

\* The field of 7384 seconds has been formatted.
C21_Witness ==
    /\ program = "format" /\ pc = "done"
    /\ field_seconds = 7384
    /\ props.LightSleep = "2h 3m"
    /\ props.LightSleepH = 21


\* ---- C22
\* Number of the current run's count entries of one kind, over all dates.
Marked(op) == Cardinality(RunCalls(op))

\* Every date of the window has at most one index entry.
NoDuplicates == \A d \in Window : Len(by_date[d]) <= 1

\* C22: when a run has ended (summary printed), the four counters are the
\* numbers of count entries of the run; if every date of the window has at
\* most one index entry, every date has exactly one count entry among created,
\* updated, skipped and errors, and the four counters add up to N; and
\* duplicate_dates is the number of dates of the window with more than one
\* index entry.
C22_CounterAccounting ==
    (program = "sleep" /\ pc = "done") =>
        /\ created = Marked("created") /\ updated = Marked("updated")
        /\ skipped = Marked("skipped") /\ errors = Marked("errors")
        /\ NoDuplicates =>
             /\ created + updated + skipped + errors = n_days
             /\ Cardinality(Window) = n_days
             /\ \A d \in Window :
                  NCalls("created", d) + NCalls("updated", d)
                      + NCalls("skipped", d) + NCalls("errors", d) = 1
        /\ duplicate_dates = Cardinality({ d \in Window : Len(by_date[d]) > 1 })

\* A run over two dates without duplicate entries has ended with a write
\* counted for one date and an error counted for the other.
C22_Witness ==
    /\ program = "sleep" /\ pc = "done"
    /\ n_days = 2 /\ NoDuplicates
    /\ errors = 1
    /\ created + updated = 1


\* ---- C23
\* C23: in the second of two successive runs of the steps sync over the same
\* window, with the same upstream data and nothing raising, there is no create
\* and no update, and the store stays as the first run left it.
C23_StepsSecondRunNoOp ==
    (program = "steps" /\ run = 2) =>
        /\ Writes = {}
        /\ db = db_start

====
